---- MODULE Spec2Model ----
(***************************************************************************)
(* Marketplace aggregation and pagination engine of mcp-agent-manager:     *)
(* the Marketplace page (src/src/pages/Marketplace.tsx), the registry      *)
(* adapter McpRegistryService (src/unnamed/part_002), the useMcpService    *)
(* hook (src/src/hooks/useMcpService.ts) and the filter/sort helpers       *)
(* (src/src/utils/commonFunctions.ts).                                     *)
(*                                                                         *)
(* Strings are sequences of one-character strings, so that toLowerCase and *)
(* includes are computed and not assumed.                                  *)
(***************************************************************************)
EXTENDS Integers, Sequences, FiniteSets, TLC

\* ------------------------------------------------------------ bounds
\* loadAll (fetchServers) runs started in one behaviour
MaxLoadAll == 2
\* clock steps taken in one behaviour
MaxTicks == 1
\* entries the registry returns per page (it may return fewer than `limit`)
PageLen == 2
\* calls of McpRegistryService.fetchServers made on its own in one behaviour
MaxCalls == 3
\* the highest page number the user asks for
MaxPage == 4
\* the length of the longest array handed to filterServers and sortServers
MaxList == 3
\* the length of the longest list cut into pages on its own
MaxItems == 37
\* the highest page number asked of a list on its own
MaxPageAsked == 5
\* calls of disableMcp and enableMcp made in one behaviour
MaxFileCalls == 2

\* ------------------------------------------------- program constants
CLI_CACHE_TTL_MS == 3600000
CACHE_TTL_MS == 3600000
itemsPerPage == 12
RegistryLimit == 50
\* registryCursor = undefined
NoCursor == 0
\* cliCache = null, a missing Map entry, lastUpdated = null
NoTime == -1

\* ------------------------------------------------------------ strings
LowerChar(c) ==
  CASE c = "A" -> "a" [] c = "B" -> "b" [] c = "F" -> "f"
    [] c = "Q" -> "q" [] c = "Z" -> "z" [] OTHER -> c

toLowerCase(s) == [i \in 1..Len(s) |-> LowerChar(s[i])]

\* String.prototype.trim, for the blanks the model's strings can hold
RECURSIVE trim(_)
trim(s) ==
  IF s = <<>> THEN s
  ELSE IF Head(s) = " " THEN trim(Tail(s))
  ELSE IF s[Len(s)] = " " THEN trim(SubSeq(s, 1, Len(s) - 1))
  ELSE s

\* String.prototype.includes
includes(s, q) ==
  \E i \in 0..(Len(s) - Len(q)) : SubSeq(s, i + 1, i + Len(q)) = q

\* ------------------------------------------------------- environment
\* what the local CLI tool lists (McpRendererService.getServers().data): two
\* servers, or in a large world enough of them to fill more than one page
SmallListing ==
  << [name |-> <<"F","o","o">>, by |-> <<"a","c","m","e">>, stargazer_count |-> 5],
     [name |-> <<"B","a","r">>, by |-> <<"a","c","m","e">>, stargazer_count |-> 50] >>

Digits == << "0", "1", "2", "3", "4", "5", "6", "7", "8", "9" >>

LargeListing ==
  SmallListing \o
  [ i \in 1..11 |->
      [ name |-> << "c", IF i > 9 THEN "1" ELSE "0",
                    << "0", "1", "2", "3", "4", "5", "6", "7", "8", "9" >>[(i % 10) + 1] >>,
        by |-> <<"x">>, stargazer_count |-> i ] ]

\* the registry's catalogue: name and the GitHub owner of repository.url
\* (<<>> when the repository is not on github.com)
Catalog ==
  << [name |-> <<"f","o","o">>, owner |-> <<"o","r","g">>],
     [name |-> <<"B","a","z">>, owner |-> <<>>],
     [name |-> <<"b","a","r">>, owner |-> <<"o","r","g">>],
     [name |-> <<"Q","u","x">>, owner |-> <<>>] >>

\* the search texts the user types
SearchTexts == { <<>>, <<"b","a">> }

\* the entries the functions of the view are tried on
PureEntries ==
  << [name |-> <<"Z","e","d">>, by |-> <<"a","c","m","e">>, stargazer_count |-> 50],
     [name |-> <<"A","n","n">>, by |-> <<"x">>, stargazer_count |-> 5],
     [name |-> <<"b","o"," ","a">>, by |-> <<"Z">>, stargazer_count |-> 5] >>

\* the arrays made of them, up to MaxList long
PureLists ==
  UNION { [1..n -> { PureEntries[i] : i \in 1..Len(PureEntries) }] : n \in 0..MaxList }

\* the texts handed to filterServers
PureQueries ==
  { <<>>, <<"a">>, <<"A">>, <<"e"," ">>, <<" ">>, <<"z","e","d">>, <<"q">> }

\* --------------------------------------------------------- variables
VARIABLES
  \* React state of the Marketplace component (Marketplace.tsx 19-34)
  cliServers, registryServers, registryCursor, hasMoreRegistry,
  isLoading, isLoadingMore, isRefreshing, searchQuery, sortBy, currentPage,
  lastUpdated, isInitialMount,
  \* useMcpService state (useMcpService.ts 19)
  isInstalled,
  \* module-level caches: cliCache (Marketplace.tsx 16), cache (part_002 16)
  cliCache, cache,
  \* Date.now()
  now,
  \* which listing the local tool has: "small", "large", "w18" or "w38"
  world,
  \* fetchServers runs suspended at an await, the count of runs started,
  \* and loadMoreRegistryServers runs suspended at their await
  loads, started, mores,
  \* history: the last completed fetchServers run
  lastDone,
  \* McpRegistryService called on its own: the requests in flight, and the
  \* history of the calls
  regCalls, regHist,
  \* history: what the last step was (the user changed the search text or the
  \* sort key, or went to another page, with the page shown before it; or a
  \* fetchServers run applied the registry's response)
  lastEvent,
  \* a call of one of the functions of the view made on its own: the
  \* arguments, the array handed in as it is after the call, what came back
  pure,
  \* AgentConfigService on one config path: the names of the entries in the
  \* main config file and in its .disabled.json file, the disableMcp and
  \* enableMcp calls made (each with its position and its local objects) and
  \* their count; history: a file read has failed
  mainFile, disabledFile, ops, calls, readFault

\* what the steps of the page leave alone
fileVars == << mainFile, disabledFile, ops, calls, readFault >>
sideVars == << pure, fileVars >>

reactVars == << cliServers, registryServers, registryCursor, hasMoreRegistry,
                isLoading, isLoadingMore, isRefreshing, searchQuery, sortBy,
                currentPage, lastUpdated, isInitialMount >>
vars == << cliServers, registryServers, registryCursor, hasMoreRegistry,
           isLoading, isLoadingMore, isRefreshing, searchQuery, sortBy,
           currentPage, lastUpdated, isInitialMount, isInstalled,
           cliCache, cache, now, world, loads, started,
           mores, lastDone, regCalls, regHist, lastEvent, pure,
           mainFile, disabledFile, ops, calls, readFault >>

\* worlds with 18 and 38 local servers: with the 2 entries of the registry's
\* first page the merged list has 20 and 40 entries
ListingOf(n) ==
  [ i \in 1..n |->
      [ name |-> << "c", Digits[(i \div 10) + 1], Digits[(i % 10) + 1] >>,
        by |-> <<"x">>, stargazer_count |-> i ] ]

CliListing ==
  CASE world = "large" -> LargeListing
    [] world = "w18" -> ListingOf(18)
    [] world = "w38" -> ListingOf(38)
    [] OTHER -> SmallListing

\* ------------------------------------------------- McpRegistryService
\* a key that leaves the search text out
getCacheKey_NoSearch(limit, cursor, search) == << limit, cursor, <<>> >>

\* JSON.stringify({limit, cursor, search}): one key per distinct triple
getCacheKey(limit, cursor, search) == << limit, cursor, search >>

\* an entry of age CACHE_TTL_MS still counts as valid
isCacheValid_Inclusive(entry, t) == t - entry.timestamp <= CACHE_TTL_MS

isCacheValid(entry, t) == t - entry.timestamp < CACHE_TTL_MS

EmptyCache == [k \in {} |-> NoTime]

CacheSet(c, key, entry) ==
  [k \in (DOMAIN c) \cup {key} |-> IF k = key THEN entry ELSE c[k]]

MaxOf(S) == CHOOSE x \in S : \A y \in S : y <= x

\* null when the cache is empty, else the latest timestamp
getLastFetchTime(c) ==
  IF DOMAIN c = {} THEN NoTime ELSE MaxOf({c[k].timestamp : k \in DOMAIN c})

\* the registry's answer to GET /v0.1/servers?limit&cursor&search: the entries
\* after the cursor that match the search, at most PageLen (and limit) of them,
\* and the cursor of the last one when more remain
Matches(search, cursor) ==
  { i \in 1..Len(Catalog) :
      /\ i > cursor
      /\ includes(toLowerCase(Catalog[i].name), toLowerCase(search)) }

RECURSIVE FirstN(_, _)
FirstN(S, n) ==
  IF n = 0 \/ S = {} THEN <<>>
  ELSE LET m == CHOOSE x \in S : \A y \in S : x <= y
       IN  <<m>> \o FirstN(S \ {m}, n - 1)

RegistryResponse(limit, cursor, search) ==
  LET all  == Matches(search, cursor)
      n    == IF limit < PageLen THEN limit ELSE PageLen
      idx  == FirstN(all, n)
  IN  [ servers  |-> [i \in 1..Len(idx) |-> Catalog[idx[i]]],
        metadata |-> [ nextCursor |-> IF Cardinality(all) > n
                                      THEN idx[Len(idx)] ELSE NoCursor,
                       count |-> Len(idx) ] ]

McpRegistryOwner == <<"M","C","P"," ","R","e","g","i","s","t","r","y">>

\* part_002 153-211: registry entry -> ServerData
TransformEntry(e) ==
  [ name |-> e.name,
    by |-> IF e.owner = <<>> THEN McpRegistryOwner ELSE e.owner,
    stargazer_count |-> 0 ]

\* part_002 150-217: the result of a successful request
FetchResultOf(data) ==
  [ servers    |-> [i \in 1..Len(data.servers) |-> TransformEntry(data.servers[i])],
    nextCursor |-> data.metadata.nextCursor,
    totalCount |-> data.metadata.count ]

\* a result of a failed request that still names a next page
EmptyResult_WithCursor == [servers |-> <<>>, nextCursor |-> 2, totalCount |-> 0]

\* part_002 226-233: the result of a failed request
EmptyResult == [servers |-> <<>>, nextCursor |-> NoCursor, totalCount |-> 0]

\* part_002 123-128: the call is answered from the cache
RegistryCacheHit(c, key, skipCache, t) ==
  /\ ~skipCache
  /\ key \in DOMAIN c
  /\ isCacheValid(c[key], t)

\* a request whose failure is stored in the cache as an empty page
RegistryReturn_CachesFailure(c, limit, cursor, search, ok, t, stale) ==
  LET r == IF ok THEN FetchResultOf(RegistryResponse(limit, cursor, search))
           ELSE EmptyResult
  IN  [ result |-> r,
        cache  |-> CacheSet(c, getCacheKey(limit, cursor, search),
                            [data |-> r, timestamp |-> t, stale |-> stale]) ]

\* what one request returns to its caller, and the cache it leaves, when the
\* HTTP exchange succeeds (ok) or fails (network error, non-2xx, bad body)
RegistryReturn(c, limit, cursor, search, ok, t, stale) ==
  IF ok
  THEN LET r == FetchResultOf(RegistryResponse(limit, cursor, search))
       IN  [ result |-> r,
             cache  |-> CacheSet(c, getCacheKey(limit, cursor, search),
                                 [data |-> r, timestamp |-> t, stale |-> stale]) ]
  ELSE [ result |-> EmptyResult, cache |-> c ]

\* ----------------------------------------------------- commonFunctions
\* commonFunctions.ts 8-20
filterServers_NameOnly(servers, query) ==
  IF query = <<>> THEN servers
  ELSE LET lowerQuery == trim(toLowerCase(query))
           keep(x) == includes(toLowerCase(x.name), lowerQuery)
       IN  SelectSeq(servers, keep)

\* commonFunctions.ts 8-20
filterServers(servers, query) ==
  IF query = <<>> THEN servers
  ELSE LET lowerQuery == trim(toLowerCase(query))
           keep(x) == \/ includes(toLowerCase(x.name), lowerQuery)
                      \/ includes(toLowerCase(x.by), lowerQuery)
       IN  SelectSeq(servers, keep)

\* collation rank of a character, case folded (digits before letters)
CollationOrder ==
  << " ", "0", "1", "2", "3", "4", "5", "6", "7", "8", "9",
     "a", "b", "c", "d", "e", "f", "g", "h", "i", "j", "k", "l",
     "m", "n", "o", "p", "q", "r", "s", "t", "u", "v", "w", "x", "y", "z" >>

CharRankTable ==
  [ c \in { CollationOrder[i] : i \in 1..Len(CollationOrder) } |->
      CHOOSE i \in 1..Len(CollationOrder) : CollationOrder[i] = c ]

CharRank(c) == CharRankTable[LowerChar(c)]

CaseRank(c) == IF LowerChar(c) = c THEN 0 ELSE 1

RankOf(c, level) == IF level = 1 THEN CharRank(c) ELSE CaseRank(c)

\* the first position where the ranks differ decides, then the shorter string
CompareBy(a, b, level) ==
  LET common == IF Len(a) < Len(b) THEN Len(a) ELSE Len(b)
      differ == { i \in 1..common : RankOf(a[i], level) # RankOf(b[i], level) }
  IN  IF differ = {}
      THEN IF Len(a) < Len(b) THEN -1 ELSE IF Len(a) > Len(b) THEN 1 ELSE 0
      ELSE LET i == CHOOSE k \in differ : \A j \in differ : k <= j
           IN  IF RankOf(a[i], level) < RankOf(b[i], level) THEN -1 ELSE 1

\* String.prototype.localeCompare: letters first compared without case, then a
\* lowercase letter before its uppercase; negative, zero or positive
localeCompare(a, b) ==
  LET primary == CompareBy(a, b, 1)
  IN  IF primary # 0 THEN primary ELSE CompareBy(a, b, 2)

\* the comparator with the stars the other way round
SortCompare_StarsAscending(a, b, key) ==
  CASE key = "name"  -> localeCompare(a.name, b.name)
    [] key = "stars" -> a.stargazer_count - b.stargazer_count
    [] OTHER -> 0

\* the comparator of commonFunctions.ts 36-46
SortCompare(a, b, key) ==
  CASE key = "name"  -> localeCompare(a.name, b.name)
    [] key = "stars" -> b.stargazer_count - a.stargazer_count
    [] OTHER -> 0

\* Array.prototype.sort is stable: x goes after every element not greater
InsertSorted(x, sorted, key) ==
  LET greater == { i \in 1..Len(sorted) : SortCompare(sorted[i], x, key) > 0 }
      at == IF greater = {} THEN Len(sorted) + 1
            ELSE CHOOSE i \in greater : \A j \in greater : i <= j
  IN  SubSeq(sorted, 1, at - 1) \o <<x>> \o SubSeq(sorted, at, Len(sorted))

RECURSIVE StableSort(_, _)
StableSort(s, key) ==
  IF s = <<>> THEN <<>>
  ELSE InsertSorted(s[Len(s)], StableSort(SubSeq(s, 1, Len(s) - 1), key), key)

\* commonFunctions.ts 22-47
sortServers(servers, key, preserveConfigOrder) ==
  IF preserveConfigOrder THEN servers ELSE StableSort(servers, key)

\* commonFunctions.ts 31 and 34: the array handed in, after the call; sort()
\* works in place, on the copy that the spread has made
sortServersArgument(servers, key, preserveConfigOrder) == servers

\* ---------------------------------------------- Marketplace: the view
allServers == cliServers \o registryServers
filteredServers == filterServers(allServers, searchQuery)
sortedServers == sortServers(filteredServers, sortBy, FALSE)

CeilDiv(n, d) == (n + d - 1) \div d
\* Marketplace.tsx 158: Math.ceil(list.length / itemsPerPage)
totalPagesOf(list) == CeilDiv(Len(list), itemsPerPage)
totalPages == totalPagesOf(sortedServers)
startIndex == (currentPage - 1) * itemsPerPage
endIndex == startIndex + itemsPerPage
\* Array.prototype.slice(from, to), for 0 <= from <= to
slice(list, from, to) ==
  LET hi == IF to < Len(list) THEN to ELSE Len(list)
  IN  SubSeq(list, from + 1, hi)
\* a page that starts one page late
pageOf_StartsAtPage(list, page) ==
  slice(list, page * itemsPerPage, page * itemsPerPage + itemsPerPage)
\* Marketplace.tsx 159-161: the page shown for a list and a page number
pageOf(list, page) ==
  slice(list, (page - 1) * itemsPerPage, (page - 1) * itemsPerPage + itemsPerPage)
paginatedServers == pageOf(sortedServers, currentPage)

\* the names as they are written, not lowercased
LowerNames_AsWritten(servers) == { servers[i].name : i \in 1..Len(servers) }

\* the lowercase names of a list, as the Sets of Marketplace.tsx 72 and 120-123
LowerNames(servers) == { toLowerCase(servers[i].name) : i \in 1..Len(servers) }

\* Marketplace.tsx 73-75 and 124-126: the entries whose lowercase name is not known
FilterUnique(servers, names) ==
  LET fresh(x) == toLowerCase(x.name) \notin names
  IN  SelectSeq(servers, fresh)

\* a slot that is never young enough
cliCacheValid_Never(cc, t) == cc.timestamp # NoTime /\ t - cc.timestamp < 0

\* Marketplace.tsx 51
cliCacheValid(cc, t) == cc.timestamp # NoTime /\ t - cc.timestamp < CLI_CACHE_TTL_MS

NoCliCache == [servers |-> <<>>, timestamp |-> NoTime, stale |-> FALSE]

\* Marketplace.tsx 82-83: registryLastFetch || (cliCache?.timestamp ?? null)
LastUpdatedOf(c, cc) ==
  LET registryLastFetch == getLastFetchTime(c)
  IN  IF registryLastFetch # NoTime /\ registryLastFetch # 0
      THEN registryLastFetch ELSE cc.timestamp

NoRun == [gen |-> 0, clean |-> FALSE, L |-> <<>>, R |-> <<>>, c |-> NoCursor]

\* the arguments McpRegistryService.fetchServers is called with on its own
AdapterKeys == { << RegistryLimit, NoCursor, <<>> >>,
                 << RegistryLimit, NoCursor, <<"b", "a">> >>,
                 << RegistryLimit, 2, <<>> >> }

\* history of the calls of McpRegistryService: count of calls; the last call
\* (its arguments, whether it sent a request, what it returned at once);
\* per argument triple: the time of the first call that may use the cache, the
\* requests sent by such calls within CACHE_TTL_MS of it, and the time and data
\* of the last successful response since the last clearCache(); the last
\* response: its arguments, whether the request had failed, what was handed to
\* the caller, and the count of calls at that time
NoHist ==
  [ count  |-> 0,
    last   |-> [ key |-> << RegistryLimit, NoCursor, <<>> >>, skipCache |-> FALSE,
                 network |-> FALSE, data |-> EmptyResult ],
    first  |-> [k \in AdapterKeys |-> NoTime],
    nets   |-> [k \in AdapterKeys |-> 0],
    okAt   |-> [k \in AdapterKeys |-> NoTime],
    okData |-> [k \in AdapterKeys |-> EmptyResult],
    answer |-> [ key |-> << RegistryLimit, NoCursor, <<>> >>, failed |-> FALSE,
                 data |-> EmptyResult, calls |-> 0 ] ]

\* no call of a function of the view on its own
NoCall ==
  [ fn |-> "none", servers |-> <<>>, query |-> <<>>, key |-> "stars",
    preserveConfigOrder |-> FALSE, page |-> 1, after |-> <<>>, result |-> <<>> ]

\* the last step was none of those
NoEvent == [kind |-> "none", page |-> 0]

\* the names of the entries of an agent's config
Names == { "a", "b" }

\* a call of disableMcp or enableMcp that has not been made
NoOp == [ fn |-> "none", name |-> "a", pc |-> "none", config |-> {},
          disabledConfig |-> {}, success |-> FALSE ]

\* no call of AgentConfigService has been made and the files are not looked at
FilesUntouched ==
  /\ mainFile = {}
  /\ disabledFile = {}
  /\ ops = [i \in 1..MaxFileCalls |-> NoOp]
  /\ calls = 0
  /\ readFault = FALSE

\* ---------------------------------------------------------------- Init
Init ==
  /\ cliServers = <<>>
  /\ registryServers = <<>>
  /\ registryCursor = NoCursor
  /\ hasMoreRegistry = TRUE
  /\ isLoading = TRUE
  /\ isLoadingMore = FALSE
  /\ isRefreshing = FALSE
  /\ searchQuery = <<>>
  /\ sortBy = "stars"
  /\ currentPage = 1
  /\ lastUpdated = NoTime
  /\ isInitialMount = TRUE
  /\ isInstalled = FALSE
  /\ cliCache = NoCliCache
  /\ cache = EmptyCache
  /\ now = 1
  /\ world = "small"
  /\ loads = {}
  /\ started = 0
  /\ mores = <<>>
  /\ lastDone = NoRun
  /\ regCalls = <<>>
  /\ regHist = NoHist
  /\ lastEvent = NoEvent
  /\ pure = NoCall
  /\ FilesUntouched

\* the worlds whose list fills more than one page
LargeWorlds == { "w18", "w38" }

InitLarge ==
  /\ cliServers = <<>>
  /\ registryServers = <<>>
  /\ registryCursor = NoCursor
  /\ hasMoreRegistry = TRUE
  /\ isLoading = TRUE
  /\ isLoadingMore = FALSE
  /\ isRefreshing = FALSE
  /\ searchQuery = <<>>
  /\ sortBy = "stars"
  /\ currentPage = 1
  /\ lastUpdated = NoTime
  /\ isInitialMount = TRUE
  /\ isInstalled = FALSE
  /\ cliCache = NoCliCache
  /\ cache = EmptyCache
  /\ now = 1
  /\ world \in LargeWorlds
  /\ loads = {}
  /\ started = 0
  /\ mores = <<>>
  /\ lastDone = NoRun
  /\ regCalls = <<>>
  /\ regHist = NoHist
  /\ lastEvent = NoEvent
  /\ pure = NoCall
  /\ FilesUntouched

\* the world whose list fills two pages
InitPages ==
  /\ cliServers = <<>>
  /\ registryServers = <<>>
  /\ registryCursor = NoCursor
  /\ hasMoreRegistry = TRUE
  /\ isLoading = TRUE
  /\ isLoadingMore = FALSE
  /\ isRefreshing = FALSE
  /\ searchQuery = <<>>
  /\ sortBy = "stars"
  /\ currentPage = 1
  /\ lastUpdated = NoTime
  /\ isInitialMount = TRUE
  /\ isInstalled = FALSE
  /\ cliCache = NoCliCache
  /\ cache = EmptyCache
  /\ now = 1
  /\ world = "large"
  /\ loads = {}
  /\ started = 0
  /\ mores = <<>>
  /\ lastDone = NoRun
  /\ regCalls = <<>>
  /\ regHist = NoHist
  /\ lastEvent = NoEvent
  /\ pure = NoCall
  /\ FilesUntouched

\* the Local slot is process wide: a view mounted again finds what an earlier
\* view has stored, here its listing taken one time unit before the mount
EarlierSlot == [servers |-> SmallListing, timestamp |-> 0, stale |-> FALSE]

InitRemount ==
  /\ cliServers = <<>>
  /\ registryServers = <<>>
  /\ registryCursor = NoCursor
  /\ hasMoreRegistry = TRUE
  /\ isLoading = TRUE
  /\ isLoadingMore = FALSE
  /\ isRefreshing = FALSE
  /\ searchQuery = <<>>
  /\ sortBy = "stars"
  /\ currentPage = 1
  /\ lastUpdated = NoTime
  /\ isInitialMount = TRUE
  /\ isInstalled = FALSE
  /\ cliCache \in { NoCliCache, EarlierSlot }
  /\ cache = EmptyCache
  /\ now = 1
  /\ world = "small"
  /\ loads = {}
  /\ started = 0
  /\ mores = <<>>
  /\ lastDone = NoRun
  /\ regCalls = <<>>
  /\ regHist = NoHist
  /\ lastEvent = NoEvent
  /\ pure = NoCall
  /\ FilesUntouched

\* the page as it is mounted, when only a function of the view is looked at
ViewAtMount ==
  /\ cliServers = <<>>
  /\ registryServers = <<>>
  /\ registryCursor = NoCursor
  /\ hasMoreRegistry = TRUE
  /\ isLoading = TRUE
  /\ isLoadingMore = FALSE
  /\ isRefreshing = FALSE
  /\ searchQuery = <<>>
  /\ sortBy = "stars"
  /\ currentPage = 1
  /\ lastUpdated = NoTime
  /\ isInitialMount = TRUE
  /\ isInstalled = FALSE
  /\ cliCache = NoCliCache
  /\ cache = EmptyCache
  /\ now = 1
  /\ world = "small"
  /\ loads = {}
  /\ started = 0
  /\ mores = <<>>
  /\ lastDone = NoRun
  /\ regCalls = <<>>
  /\ regHist = NoHist
  /\ lastEvent = NoEvent

\* everything but the call of a function of the view
pageVars == << reactVars, lastEvent, isInstalled, cliCache, cache, now, world,
              loads, started, mores, lastDone, regCalls, regHist >>

\* ---------------------------------------- Marketplace: the prefetch guard
\* Marketplace.tsx 109: the call goes on
loadMoreGuard == hasMoreRegistry /\ ~isLoadingMore /\ registryCursor # NoCursor

\* the prefetch effect with a buffer of one page instead of two
prefetchCondition_OnePage ==
  LET remainingServers == Len(sortedServers) - endIndex
  IN  hasMoreRegistry /\ ~isLoadingMore /\ remainingServers < itemsPerPage

\* Marketplace.tsx 165-166: the prefetch effect calls loadMoreRegistryServers
prefetchCondition ==
  LET remainingServers == Len(sortedServers) - endIndex
  IN  hasMoreRegistry /\ ~isLoadingMore /\ remainingServers < itemsPerPage * 2

\* React runs the effects of a render before it handles the next event: while
\* the prefetch effect has a load to start, nothing else happens
EffectsFlushed == ~(loadMoreGuard /\ prefetchCondition)

\* ------------------------------------------- Marketplace: fetchServers
\* the runs in flight learn that another load ran beside them
MarkBusy(S) == { [t EXCEPT !.clean = FALSE] : t \in S }
\* the runs in flight learn that refresh() was invoked while they were in flight
MarkStale(S) == { [t EXCEPT !.stale = TRUE] : t \in S }

\* the registry result deduplicated against the cliServers of the state, not
\* against the listing this run got
FinishLoad_StateNames(t, L, r, cacheNext, cliCacheNext) ==
  /\ registryServers' = FilterUnique(r.servers, LowerNames(cliServers))
  /\ registryCursor' = r.nextCursor
  /\ hasMoreRegistry' = (r.nextCursor # NoCursor)
  /\ lastUpdated' = LastUpdatedOf(cacheNext, cliCacheNext)
  /\ isLoading' = FALSE
  /\ isRefreshing' = FALSE
  /\ isInitialMount' = FALSE
  /\ cache' = cacheNext
  /\ lastDone' = [gen |-> t.gen, clean |-> t.clean, L |-> L,
                  R |-> r.servers, c |-> r.nextCursor]

\* the run ends without setIsRefreshing(false)
FinishLoad_KeepsRefreshing(t, L, r, cacheNext, cliCacheNext) ==
  /\ registryServers' = FilterUnique(r.servers, LowerNames(L))
  /\ registryCursor' = r.nextCursor
  /\ hasMoreRegistry' = (r.nextCursor # NoCursor)
  /\ lastUpdated' = LastUpdatedOf(cacheNext, cliCacheNext)
  /\ isLoading' = FALSE
  /\ isRefreshing' = isRefreshing
  /\ isInitialMount' = FALSE
  /\ cache' = cacheNext
  /\ lastDone' = [gen |-> t.gen, clean |-> t.clean, L |-> L,
                  R |-> r.servers, c |-> r.nextCursor]

\* Marketplace.tsx 71-90: the registry result r is applied and the run ends
FinishLoad(t, L, r, cacheNext, cliCacheNext) ==
  /\ registryServers' = FilterUnique(r.servers, LowerNames(L))
  /\ registryCursor' = r.nextCursor
  /\ hasMoreRegistry' = (r.nextCursor # NoCursor)
  /\ lastUpdated' = LastUpdatedOf(cacheNext, cliCacheNext)
  /\ isLoading' = FALSE
  /\ isRefreshing' = FALSE
  /\ isInitialMount' = FALSE
  /\ cache' = cacheNext
  /\ lastDone' = [gen |-> t.gen, clean |-> t.clean, L |-> L,
                  R |-> r.servers, c |-> r.nextCursor]

\* Marketplace.tsx 62-69: cliResults is known; setCliServers, then the registry
\* is asked for page 1. A cached page is applied in the same task, else the run
\* waits for the response. others: the other runs in flight; ld, rf: isLoading
\* and isRefreshing while the run waits
RegistryPhase(t, L, cacheNow, cliCacheNext, others, ld, rf) ==
  LET key == getCacheKey(RegistryLimit, NoCursor, t.search)
  IN  /\ cliServers' = L
      /\ cliCache' = cliCacheNext
      /\ IF RegistryCacheHit(cacheNow, key, t.skipCache, now)
         THEN /\ FinishLoad(t, L, cacheNow[key].data, cacheNow, cliCacheNext)
              /\ loads' = others
         ELSE /\ loads' = others \cup
                    { [t EXCEPT !.cliPending = FALSE, !.regPending = TRUE,
                                !.cliResults = L] }
              /\ cache' = cacheNow
              /\ isLoading' = ld
              /\ isRefreshing' = rf
              /\ UNCHANGED << registryServers, registryCursor, hasMoreRegistry,
                              lastUpdated, isInitialMount, lastDone >>

\* Marketplace.tsx 39-69: fetchServers(skipCache) up to its first await, called
\* with the closure of the latest render; cacheNow and cliCacheNow are the two
\* caches at the call, refresh tells that handleRefresh made it
StartFetchServers(skipCache, cacheNow, cliCacheNow, refresh) ==
  LET isRefresh == ~isInitialMount
      ld == IF isRefresh THEN isLoading ELSE TRUE
      rf == IF isRefresh THEN TRUE ELSE isRefreshing
      busy == MarkBusy(loads)
      others == IF refresh THEN MarkStale(busy) ELSE busy
      t == [ gen |-> started + 1, skipCache |-> skipCache, search |-> searchQuery,
             at |-> now, cliPending |-> FALSE, regPending |-> FALSE,
             cliResults |-> <<>>, clean |-> (loads = {} /\ mores = <<>>),
             stale |-> FALSE ]
  IN  /\ started' = started + 1
      /\ mores' = IF refresh
                  THEN [i \in 1..Len(mores) |->
                          [mores[i] EXCEPT !.refresh = started + 1]]
                  ELSE mores
      /\ IF ~skipCache /\ cliCacheValid(cliCacheNow, now) /\ isInstalled
         THEN RegistryPhase(t, cliCacheNow.servers, cacheNow, cliCacheNow, others,
                            ld, rf)
         ELSE IF isInstalled
         THEN /\ loads' = others \cup { [t EXCEPT !.cliPending = TRUE] }
              /\ isLoading' = ld
              /\ isRefreshing' = rf
              /\ cache' = cacheNow
              /\ cliCache' = cliCacheNow
              /\ UNCHANGED << cliServers, registryServers, registryCursor,
                              hasMoreRegistry, lastUpdated, isInitialMount,
                              lastDone >>
         ELSE RegistryPhase(t, <<>>, cacheNow, cliCacheNow, others, ld, rf)
      /\ UNCHANGED << isLoadingMore, searchQuery, sortBy, currentPage,
                      isInstalled, now, world, regCalls, regHist,
                      sideVars >>
      /\ lastEvent' = NoEvent

\* Marketplace.tsx 102-105: fetchServers changes identity with every render
\* (getServers, one of its dependencies, is a new function on every render of
\* useMcpService), so the effect calls it after any render
InitialLoadEffect ==
  /\ started < MaxLoadAll
  /\ EffectsFlushed
  /\ StartFetchServers(FALSE, cache, cliCache, FALSE)

\* Marketplace.tsx 94-100; the button is disabled while isRefreshing
\* (MarketplaceHeader.tsx 65)
handleRefresh ==
  /\ ~isRefreshing
  /\ started < MaxLoadAll
  /\ EffectsFlushed
  /\ StartFetchServers(TRUE, EmptyCache, NoCliCache, TRUE)

\* getServers returns, and a failed listing is stored in the slot as an empty one
CliReturn_CachesFailure(t, ok) ==
  /\ t \in loads
  /\ t.cliPending
  /\ EffectsFlushed
  /\ LET L == IF ok THEN CliListing ELSE <<>>
         cliCacheNext == IF ok
                         THEN [servers |-> CliListing, timestamp |-> t.at,
                               stale |-> t.stale]
                         ELSE [servers |-> <<>>, timestamp |-> t.at,
                               stale |-> t.stale]
     IN  RegistryPhase(t, L, cache, cliCacheNext, loads \ {t},
                       isLoading, isRefreshing)
  /\ UNCHANGED << world, regCalls, regHist, sideVars >>
  /\ lastEvent' = NoEvent
  /\ UNCHANGED << isLoadingMore, searchQuery, sortBy, currentPage, isInstalled,
                  now, started, mores >>

\* Marketplace.tsx 56-62 with useMcpService.ts 118-153: getServers returns the
\* listing (ok) or null (the command failed or threw)
CliReturn(t, ok) ==
  /\ t \in loads
  /\ t.cliPending
  /\ EffectsFlushed
  /\ LET L == IF ok THEN CliListing ELSE <<>>
         cliCacheNext == IF ok
                         THEN [servers |-> CliListing, timestamp |-> t.at,
                               stale |-> t.stale]
                         ELSE cliCache
     IN  RegistryPhase(t, L, cache, cliCacheNext, loads \ {t},
                       isLoading, isRefreshing)
  /\ UNCHANGED << world, regCalls, regHist, sideVars >>
  /\ lastEvent' = NoEvent
  /\ UNCHANGED << isLoadingMore, searchQuery, sortBy, currentPage, isInstalled,
                  now, started, mores >>

\* Marketplace.tsx 65-90 with part_002 144-233: the registry answers page 1
RegistryReturnLoad(t, ok) ==
  /\ t \in loads
  /\ t.regPending
  /\ EffectsFlushed
  /\ LET ret == RegistryReturn(cache, RegistryLimit, NoCursor, t.search, ok, now,
                               t.stale)
     IN  FinishLoad(t, t.cliResults, ret.result, ret.cache, cliCache)
  /\ loads' = loads \ {t}
  /\ UNCHANGED << world, regCalls, regHist, sideVars >>
  /\ lastEvent' = [kind |-> "loaded", page |-> 0]
  /\ UNCHANGED << cliServers, cliCache, isLoadingMore, searchQuery,
                  sortBy, currentPage, isInstalled, now, started,
                  mores >>

\* -------------------------------- Marketplace: loadMoreRegistryServers
\* the page put in front of the list instead of behind it
ApplyMore_Prepends(r, existingNames) ==
  /\ registryServers' = FilterUnique(r.servers, existingNames) \o registryServers
  /\ registryCursor' = r.nextCursor
  /\ hasMoreRegistry' = (r.nextCursor # NoCursor)

\* the result of a page applied without noticing that the cursor ran out
ApplyMore_NeverExhausted(r, existingNames) ==
  /\ registryServers' = registryServers \o FilterUnique(r.servers, existingNames)
  /\ registryCursor' = r.nextCursor
  /\ hasMoreRegistry' = TRUE

\* Marketplace.tsx 119-130: a page is appended to the list as it is now, without
\* the names the closure of the call knew
ApplyMore(r, existingNames) ==
  /\ registryServers' = registryServers \o FilterUnique(r.servers, existingNames)
  /\ registryCursor' = r.nextCursor
  /\ hasMoreRegistry' = (r.nextCursor # NoCursor)

\* loadMoreRegistryServers that does not raise isLoadingMore
StartLoadMore_NoFlag ==
  /\ loads' = MarkBusy(loads)
  /\ mores' = Append(mores, [ cursor |-> registryCursor, search |-> searchQuery,
                              existingNames |-> LowerNames(cliServers) \cup
                                                LowerNames(registryServers),
                              refresh |-> 0 ])
  /\ UNCHANGED << registryServers, registryCursor, hasMoreRegistry, isLoadingMore >>

\* Marketplace.tsx 111-117: loadMoreRegistryServers past its guard, with the
\* closure of the latest render. A cached page is applied in the same task
\* (isLoadingMore goes to true and back in one batch), else the run waits
StartLoadMore ==
  LET key == getCacheKey(RegistryLimit, registryCursor, searchQuery)
      existingNames == LowerNames(cliServers) \cup LowerNames(registryServers)
  IN  /\ loads' = MarkBusy(loads)
      /\ IF RegistryCacheHit(cache, key, FALSE, now)
         THEN /\ ApplyMore(cache[key].data, existingNames)
              /\ UNCHANGED << isLoadingMore, mores >>
         ELSE /\ isLoadingMore' = TRUE
              /\ mores' = Append(mores, [ cursor |-> registryCursor,
                                          search |-> searchQuery,
                                          existingNames |-> existingNames,
                                          refresh |-> 0 ])
              /\ UNCHANGED << registryServers, registryCursor, hasMoreRegistry >>

\* Marketplace.tsx 164-169: the effect runs after a render; it calls
\* loadMoreRegistryServers or not, and the call returns at once or goes on
PrefetchEffect ==
  /\ IF ~prefetchCondition
     THEN UNCHANGED << registryServers, registryCursor, hasMoreRegistry,
                          isLoadingMore, mores, loads >>
     ELSE IF ~loadMoreGuard
     THEN UNCHANGED << registryServers, registryCursor, hasMoreRegistry,
                          isLoadingMore, mores, loads >>
     ELSE StartLoadMore
  /\ UNCHANGED << world, regCalls, regHist, sideVars >>
  /\ lastEvent' = NoEvent
  /\ UNCHANGED << cliServers, isLoading, isRefreshing, searchQuery, sortBy,
                  currentPage, lastUpdated, isInitialMount, isInstalled,
                  cliCache, cache, now, started, lastDone >>

RemoveAt(s, i) == SubSeq(s, 1, i - 1) \o SubSeq(s, i + 1, Len(s))

\* Marketplace.tsx 113-134 with part_002 144-233: the registry answers the
\* page request of the i-th waiting run
MoreReturn(i, ok) ==
  /\ i \in 1..Len(mores)
  /\ EffectsFlushed
  /\ LET m == mores[i]
         ret == RegistryReturn(cache, RegistryLimit, m.cursor, m.search, ok, now,
                               m.refresh > 0)
     IN  /\ ApplyMore(ret.result, m.existingNames)
         /\ cache' = ret.cache
  /\ isLoadingMore' = FALSE
  /\ mores' = RemoveAt(mores, i)
  /\ UNCHANGED << world, regCalls, regHist, sideVars >>
  /\ lastEvent' = NoEvent
  /\ UNCHANGED << cliServers, isLoading, isRefreshing, searchQuery, sortBy,
                  currentPage, lastUpdated, isInitialMount, isInstalled,
                  cliCache, now, loads, started, lastDone >>

\* ------------------------------------------------ the user, the clock
\* MarketplaceHeader.tsx 80 and Marketplace.tsx 137-140: the text changes and
\* the page-reset effect runs
setSearchQuery(q) ==
  /\ q # searchQuery
  /\ EffectsFlushed
  /\ searchQuery' = q
  /\ currentPage' = 1
  /\ UNCHANGED << world, regCalls, regHist, sideVars >>
  /\ lastEvent' = [kind |-> "filter", page |-> currentPage]
  /\ UNCHANGED << cliServers, registryServers, registryCursor, hasMoreRegistry,
                  isLoading, isLoadingMore, isRefreshing, sortBy, lastUpdated,
                  isInitialMount, isInstalled, cliCache, cache,
                  now, loads, started, mores, lastDone >>

\* the sort key changes and the page stays
setSortBy_KeepsPage(v) ==
  /\ v # sortBy
  /\ EffectsFlushed
  /\ sortBy' = v
  /\ currentPage' = currentPage
  /\ UNCHANGED << world, regCalls, regHist, sideVars >>
  /\ lastEvent' = [kind |-> "filter", page |-> currentPage]
  /\ UNCHANGED << cliServers, registryServers, registryCursor, hasMoreRegistry,
                  isLoading, isLoadingMore, isRefreshing, searchQuery,
                  lastUpdated, isInitialMount, isInstalled, cliCache, cache, now, loads, started, mores, lastDone >>

\* MarketplaceHeader.tsx 84 and Marketplace.tsx 137-140
setSortBy(v) ==
  /\ v # sortBy
  /\ EffectsFlushed
  /\ sortBy' = v
  /\ currentPage' = 1
  /\ UNCHANGED << world, regCalls, regHist, sideVars >>
  /\ lastEvent' = [kind |-> "filter", page |-> currentPage]
  /\ UNCHANGED << cliServers, registryServers, registryCursor, hasMoreRegistry,
                  isLoading, isLoadingMore, isRefreshing, searchQuery,
                  lastUpdated, isInitialMount, isInstalled, cliCache, cache, now, loads, started, mores, lastDone >>

\* Marketplace.tsx 171-174; the pagination is shown when the list is and has
\* more than one page (Marketplace.tsx 185, 270)
handlePageChange(page) ==
  /\ page # currentPage
  /\ ~isLoading
  /\ EffectsFlushed
  /\ LET pages == totalPages
     IN  pages > 1 /\ page \in 1..pages
  /\ currentPage' = page
  /\ UNCHANGED << world, regCalls, regHist, sideVars >>
  /\ lastEvent' = [kind |-> "page", page |-> currentPage]
  /\ UNCHANGED << cliServers, registryServers, registryCursor, hasMoreRegistry,
                  isLoading, isLoadingMore, isRefreshing, searchQuery, sortBy,
                  lastUpdated, isInitialMount, isInstalled, cliCache, cache, now, loads, started, mores, lastDone >>

\* useMcpService.ts 25-41, 276-279: the installation probe of the mount returns;
\* isInstalled stays false when the tool is not installed or the probe throws
checkInstallation(installed) ==
  /\ ~isInstalled
  /\ EffectsFlushed
  /\ isInstalled' = installed
  /\ UNCHANGED << world, regCalls, regHist, sideVars >>
  /\ lastEvent' = NoEvent
  /\ UNCHANGED << cliServers, registryServers, registryCursor, hasMoreRegistry,
                  isLoading, isLoadingMore, isRefreshing, searchQuery, sortBy,
                  currentPage, lastUpdated, isInitialMount, cliCache, cache, now,
                  loads, started, mores, lastDone >>

\* the clock steps by the lifetime of a cache entry: an entry stored just
\* before the step has age CACHE_TTL_MS after it
TickSteps == { CACHE_TTL_MS }
TicksTaken == now \div CACHE_TTL_MS

Tick(d) ==
  /\ TicksTaken < MaxTicks
  /\ EffectsFlushed
  /\ now' = now + d
  /\ UNCHANGED << world, regCalls, regHist, sideVars >>
  /\ lastEvent' = NoEvent
  /\ UNCHANGED << cliServers, registryServers, registryCursor, hasMoreRegistry,
                  isLoading, isLoadingMore, isRefreshing, searchQuery, sortBy,
                  currentPage, lastUpdated, isInitialMount, isInstalled,
                  cliCache, cache, loads, started, mores,
                  lastDone >>

\* ------------------------------- McpRegistryService called on its own
\* part_002 113-150: fetchServers({limit, cursor, search, skipCache}) up to its
\* await: a valid cached entry is returned at once, else a request is sent
McpRegistryService_fetchServers(limit, cursor, search, skipCache) ==
  LET key == getCacheKey(limit, cursor, search)
      k   == << limit, cursor, search >>
      hit == RegistryCacheHit(cache, key, skipCache, now)
      opens == ~skipCache /\ ( \/ regHist.first[k] = NoTime
                               \/ now - regHist.first[k] >= CACHE_TTL_MS )
      sent == IF hit THEN 0 ELSE 1
  IN  /\ regHist.count < MaxCalls
      /\ regCalls' = IF hit THEN regCalls
                     ELSE Append(regCalls, [ limit |-> limit, cursor |-> cursor,
                                             search |-> search ])
      /\ regHist' =
           [ regHist EXCEPT
               !.count = @ + 1,
               !.last  = [ key |-> k, skipCache |-> skipCache, network |-> ~hit,
                           data |-> IF hit THEN cache[key].data ELSE EmptyResult ],
               !.first[k] = IF opens THEN now ELSE @,
               !.nets[k]  = IF skipCache THEN @
                            ELSE IF opens THEN sent ELSE @ + sent ]
      /\ UNCHANGED << reactVars, lastEvent, sideVars, isInstalled, cliCache, cache, now, world, loads,
                      started, mores, lastDone >>

\* part_002 150-233: the response of the i-th request in flight arrives
McpRegistryService_fetchServersReturn(i, ok) ==
  /\ i \in 1..Len(regCalls)
  /\ LET m == regCalls[i]
         k == << m.limit, m.cursor, m.search >>
         ret == RegistryReturn(cache, m.limit, m.cursor, m.search, ok, now, FALSE)
     IN  /\ cache' = ret.cache
         /\ regHist' = IF ok
                       THEN [ regHist EXCEPT !.okAt[k] = now,
                                             !.okData[k] = ret.result,
                                             !.answer =
                                               [ key |-> k, failed |-> FALSE,
                                                 data |-> ret.result,
                                                 calls |-> regHist.count ] ]
                       ELSE [ regHist EXCEPT !.answer =
                                               [ key |-> k, failed |-> TRUE,
                                                 data |-> ret.result,
                                                 calls |-> regHist.count ] ]
  /\ regCalls' = RemoveAt(regCalls, i)
  /\ UNCHANGED << reactVars, lastEvent, sideVars, isInstalled, cliCache, now, world, loads, started,
                  mores, lastDone >>

\* part_002 97-99
clearCache ==
  /\ cache' = EmptyCache
  /\ regHist' = [ regHist EXCEPT !.okAt = [k \in AdapterKeys |-> NoTime] ]
  /\ UNCHANGED << reactVars, lastEvent, sideVars, isInstalled, cliCache, now, world, loads, started,
                  mores, lastDone, regCalls >>

NextRegistry ==
  \/ \E k \in AdapterKeys, skipCache \in BOOLEAN :
       McpRegistryService_fetchServers(k[1], k[2], k[3], skipCache)
  \/ \E i \in 1..Len(regCalls), ok \in BOOLEAN :
       McpRegistryService_fetchServersReturn(i, ok)
  \/ clearCache
  \/ \E d \in TickSteps : Tick(d)

SpecRegistry == Init /\ [][NextRegistry]_vars


\* in a small world the list never exceeds one page and the pagination is
\* never shown: handlePageChange is not enabled
Next ==
  \/ InitialLoadEffect
  \/ handleRefresh
  \/ \E t \in loads, ok \in BOOLEAN : CliReturn(t, ok)
  \/ \E t \in loads, ok \in BOOLEAN : RegistryReturnLoad(t, ok)
  \/ PrefetchEffect
  \/ \E i \in 1..Len(mores), ok \in BOOLEAN : MoreReturn(i, ok)
  \/ \E q \in SearchTexts : setSearchQuery(q)
  \/ \E v \in {"name", "stars"} : setSortBy(v)
  \/ \E installed \in BOOLEAN : checkInstallation(installed)
  \/ \E d \in TickSteps : Tick(d)

Spec == Init /\ [][Next]_vars

\* the page with a list long enough for the pagination: no refresh, the clock
\* stands still and the sort key stays as it is
NextLarge ==
  \/ InitialLoadEffect
  \/ \E t \in loads, ok \in BOOLEAN : CliReturn(t, ok)
  \/ \E t \in loads, ok \in BOOLEAN : RegistryReturnLoad(t, ok)
  \/ PrefetchEffect
  \/ \E i \in 1..Len(mores), ok \in BOOLEAN : MoreReturn(i, ok)
  \/ \E q \in SearchTexts : setSearchQuery(q)
  \/ \E page \in 1..MaxPage : handlePageChange(page)
  \/ \E installed \in BOOLEAN : checkInstallation(installed)

SpecLarge == InitLarge /\ [][NextLarge]_vars

\* the same with the sort key changing, on a list of two pages
NextPages ==
  \/ NextLarge
  \/ \E v \in {"name", "stars"} : setSortBy(v)

SpecPages == InitPages /\ [][NextPages]_vars

\* ------------------------------------------------ filterServers on its own
InitFilter ==
  /\ ViewAtMount
  /\ FilesUntouched
  /\ \E servers \in PureLists, query \in PureQueries :
       pure = [NoCall EXCEPT !.servers = servers, !.query = query]

\* commonFunctions.ts 8-20: the call; filter() builds a new array
Call_filterServers ==
  /\ pure.fn = "none"
  /\ pure' = [pure EXCEPT !.fn = "filterServers",
                          !.after = pure.servers,
                          !.result = filterServers(pure.servers, pure.query)]
  /\ UNCHANGED << pageVars, fileVars >>

SpecFilter == InitFilter /\ [][Call_filterServers]_vars

\* -------------------------------------------------- sortServers on its own
\* the sort keys handed in: the two of the page and one that is neither
PureKeys == { "name", "stars", "date" }

InitSort ==
  /\ ViewAtMount
  /\ FilesUntouched
  /\ \E servers \in PureLists, key \in PureKeys, preserveConfigOrder \in BOOLEAN :
       pure = [NoCall EXCEPT !.servers = servers, !.key = key,
                             !.preserveConfigOrder = preserveConfigOrder]

\* commonFunctions.ts 22-47: the call
Call_sortServers ==
  /\ pure.fn = "none"
  /\ pure' = [pure EXCEPT
                !.fn = "sortServers",
                !.after = sortServersArgument(pure.servers, pure.key,
                                              pure.preserveConfigOrder),
                !.result = sortServers(pure.servers, pure.key,
                                       pure.preserveConfigOrder)]
  /\ UNCHANGED << pageVars, fileVars >>

SpecSort == InitSort /\ [][Call_sortServers]_vars

\* ---------------------------------------------------- the pages on their own
InitPaging ==
  /\ ViewAtMount
  /\ FilesUntouched
  /\ \E n \in 0..MaxItems, page \in 1..MaxPageAsked :
       pure = [NoCall EXCEPT !.servers = ListingOf(n), !.page = page]

\* Marketplace.tsx 157-161: one render's page of a filtered and sorted list
Call_paginate ==
  /\ pure.fn = "none"
  /\ pure' = [pure EXCEPT !.fn = "paginate", !.after = pure.servers,
                          !.result = pageOf(pure.servers, pure.page)]
  /\ UNCHANGED << pageVars, fileVars >>

SpecPaging == InitPaging /\ [][Call_paginate]_vars

\* ------------------------------------------------- AgentConfigService
\* what mcpApi.readFile gives: the content of the file, { success: false },
\* or an exception that is not ENOENT
ReadOutcomes == { "content", "fails", "throws" }

\* agentConfigService.ts 34-54: the entries of the main config, or no success
readAgentConfig(r) ==
  IF r = "content" THEN [success |-> TRUE, config |-> mainFile]
  ELSE [success |-> FALSE, config |-> {}]

\* agentConfigService.ts 288-314: a read that does not succeed counts as a
\* file that does not exist yet
readDisabledConfig(r) ==
  CASE r = "content" -> [success |-> TRUE, config |-> disabledFile]
    [] r = "fails"   -> [success |-> TRUE, config |-> {}]
    [] OTHER         -> [success |-> FALSE, config |-> {}]

\* the call numbered i returns { success }
Return(i, success) == [ops EXCEPT ![i].pc = "done", ![i].success = success]

\* every entry is in one of the two files, no call has been made
InitFiles ==
  /\ ViewAtMount
  /\ pure = NoCall
  /\ mainFile \in SUBSET Names
  /\ disabledFile = Names \ mainFile
  /\ ops = [i \in 1..MaxFileCalls |-> NoOp]
  /\ calls = 0
  /\ readFault = FALSE

\* agentConfigService.ts 340-346: disableMcp is called and asks for the main config
disableMcp(name) ==
  /\ calls < MaxFileCalls
  /\ calls' = calls + 1
  /\ ops' = [ops EXCEPT ![calls + 1] =
               [NoOp EXCEPT !.fn = "disableMcp", !.name = name,
                            !.pc = "readAgentConfig"]]
  /\ UNCHANGED << mainFile, disabledFile, readFault, pageVars, pure >>

\* agentConfigService.ts 346-360: the main config is read; the call returns when
\* the read failed or the entry is not there, else it asks for the disabled file
disableMcp_readAgentConfig(i, r) ==
  /\ ops[i].fn = "disableMcp"
  /\ ops[i].pc = "readAgentConfig"
  /\ LET readResult == readAgentConfig(r)
     IN  IF ~readResult.success \/ ops[i].name \notin readResult.config
         THEN ops' = Return(i, FALSE)
         ELSE ops' = [ops EXCEPT ![i].config = readResult.config,
                                 ![i].pc = "readDisabledConfig"]
  /\ readFault' = (readFault \/ r # "content")
  /\ UNCHANGED << mainFile, disabledFile, calls, pageVars, pure >>

\* agentConfigService.ts 360-372: the disabled file is read, the entry is moved
\* in the two objects of the call, and the write of the disabled file is asked for
disableMcp_readDisabledConfig(i, r) ==
  /\ ops[i].fn = "disableMcp"
  /\ ops[i].pc = "readDisabledConfig"
  /\ LET disabledResult == readDisabledConfig(r)
     IN  IF ~disabledResult.success
         THEN ops' = Return(i, FALSE)
         ELSE ops' = [ops EXCEPT
                        ![i].disabledConfig = disabledResult.config \cup { ops[i].name },
                        ![i].config = ops[i].config \ { ops[i].name },
                        ![i].pc = "writeDisabledConfig"]
  /\ readFault' = (readFault \/ r # "content")
  /\ UNCHANGED << mainFile, disabledFile, calls, pageVars, pure >>

\* agentConfigService.ts 372-377 with 319-335: the disabled file is written or
\* the write fails; after a failure the call returns
disableMcp_writeDisabledConfig(i, ok) ==
  /\ ops[i].fn = "disableMcp"
  /\ ops[i].pc = "writeDisabledConfig"
  /\ IF ok
     THEN /\ disabledFile' = ops[i].disabledConfig
          /\ ops' = [ops EXCEPT ![i].pc = "writeAgentConfig"]
     ELSE /\ disabledFile' = disabledFile
          /\ ops' = Return(i, FALSE)
  /\ UNCHANGED << mainFile, calls, readFault, pageVars, pure >>

\* agentConfigService.ts 377 with 59-73: the main config is written or the write
\* fails; the call returns the result of the write
disableMcp_writeAgentConfig(i, ok) ==
  /\ ops[i].fn = "disableMcp"
  /\ ops[i].pc = "writeAgentConfig"
  /\ mainFile' = IF ok THEN ops[i].config ELSE mainFile
  /\ ops' = Return(i, ok)
  /\ UNCHANGED << disabledFile, calls, readFault, pageVars, pure >>

\* agentConfigService.ts 390-396: enableMcp is called and asks for the disabled file
enableMcp(name) ==
  /\ calls < MaxFileCalls
  /\ calls' = calls + 1
  /\ ops' = [ops EXCEPT ![calls + 1] =
               [NoOp EXCEPT !.fn = "enableMcp", !.name = name,
                            !.pc = "readDisabledConfig"]]
  /\ UNCHANGED << mainFile, disabledFile, readFault, pageVars, pure >>

\* agentConfigService.ts 396-407: the disabled file is read; the call returns
\* when the read threw or the entry is not there, else it asks for the main config
enableMcp_readDisabledConfig(i, r) ==
  /\ ops[i].fn = "enableMcp"
  /\ ops[i].pc = "readDisabledConfig"
  /\ LET disabledResult == readDisabledConfig(r)
     IN  IF ~disabledResult.success \/ ops[i].name \notin disabledResult.config
         THEN ops' = Return(i, FALSE)
         ELSE ops' = [ops EXCEPT ![i].disabledConfig = disabledResult.config,
                                 ![i].pc = "readAgentConfig"]
  /\ readFault' = (readFault \/ r # "content")
  /\ UNCHANGED << mainFile, disabledFile, calls, pageVars, pure >>

\* agentConfigService.ts 407-424: the main config is read, a failed read giving
\* { mcpServers: {} }; the entry is moved in the two objects of the call, and
\* the write of the main config is asked for
enableMcp_readAgentConfig(i, r) ==
  /\ ops[i].fn = "enableMcp"
  /\ ops[i].pc = "readAgentConfig"
  /\ LET readResult == readAgentConfig(r)
         config == IF readResult.success THEN readResult.config ELSE {}
     IN  ops' = [ops EXCEPT
                   ![i].config = config \cup { ops[i].name },
                   ![i].disabledConfig = ops[i].disabledConfig \ { ops[i].name },
                   ![i].pc = "writeAgentConfig"]
  /\ readFault' = (readFault \/ r # "content")
  /\ UNCHANGED << mainFile, disabledFile, calls, pageVars, pure >>

\* agentConfigService.ts 424-429 with 59-73: the main config is written or the
\* write fails; after a failure the call returns
enableMcp_writeAgentConfig(i, ok) ==
  /\ ops[i].fn = "enableMcp"
  /\ ops[i].pc = "writeAgentConfig"
  /\ IF ok
     THEN /\ mainFile' = ops[i].config
          /\ ops' = [ops EXCEPT ![i].pc = "writeDisabledConfig"]
     ELSE /\ mainFile' = mainFile
          /\ ops' = Return(i, FALSE)
  /\ UNCHANGED << disabledFile, calls, readFault, pageVars, pure >>

\* agentConfigService.ts 429 with 319-335: the disabled file is written or the
\* write fails; the call returns the result of the write
enableMcp_writeDisabledConfig(i, ok) ==
  /\ ops[i].fn = "enableMcp"
  /\ ops[i].pc = "writeDisabledConfig"
  /\ disabledFile' = IF ok THEN ops[i].disabledConfig ELSE disabledFile
  /\ ops' = Return(i, ok)
  /\ UNCHANGED << mainFile, calls, readFault, pageVars, pure >>

NextFiles ==
  \/ \E name \in Names : disableMcp(name)
  \/ \E name \in Names : enableMcp(name)
  \/ \E i \in 1..MaxFileCalls, r \in ReadOutcomes : disableMcp_readAgentConfig(i, r)
  \/ \E i \in 1..MaxFileCalls, r \in ReadOutcomes : disableMcp_readDisabledConfig(i, r)
  \/ \E i \in 1..MaxFileCalls, ok \in BOOLEAN : disableMcp_writeDisabledConfig(i, ok)
  \/ \E i \in 1..MaxFileCalls, ok \in BOOLEAN : disableMcp_writeAgentConfig(i, ok)
  \/ \E i \in 1..MaxFileCalls, r \in ReadOutcomes : enableMcp_readDisabledConfig(i, r)
  \/ \E i \in 1..MaxFileCalls, r \in ReadOutcomes : enableMcp_readAgentConfig(i, r)
  \/ \E i \in 1..MaxFileCalls, ok \in BOOLEAN : enableMcp_writeAgentConfig(i, ok)
  \/ \E i \in 1..MaxFileCalls, ok \in BOOLEAN : enableMcp_writeDisabledConfig(i, ok)

SpecFiles == InitFiles /\ [][NextFiles]_vars

\* the view mounted in a process whose Local slot may be filled already
SpecRemount == InitRemount /\ [][Next]_vars

\* when the steps below can happen: each of them changes the state
CliReturnEnabled == EffectsFlushed /\ \E t \in loads : t.cliPending
RegistryReturnLoadEnabled == EffectsFlushed /\ \E t \in loads : t.regPending
MoreReturnEnabled == EffectsFlushed /\ mores # <<>>
PrefetchEffectEnabled == loadMoreGuard /\ prefetchCondition

\* the effect of the mount runs (React runs the effects of the first render);
\* every getServers call and every registry request returns, with a result or
\* a failure; the effect of a render that has a page to ask for runs. Weak
\* fairness of each step, written out with the condition under which the
\* step is enabled
Fairness ==
  /\ WF_vars(started = 0 /\ InitialLoadEffect)
  /\ \/ []<>(~CliReturnEnabled)
     \/ []<><<\E t \in loads, ok \in BOOLEAN : CliReturn(t, ok)>>_vars
  /\ \/ []<>(~RegistryReturnLoadEnabled)
     \/ []<><<\E t \in loads, ok \in BOOLEAN : RegistryReturnLoad(t, ok)>>_vars
  /\ \/ []<>(~MoreReturnEnabled)
     \/ []<><<\E i \in 1..Len(mores), ok \in BOOLEAN : MoreReturn(i, ok)>>_vars
  /\ \/ []<>(~PrefetchEffectEnabled)
     \/ []<><<PrefetchEffect>>_vars

SpecFair == Spec /\ Fairness

\* the same for the worlds with long listings
SpecLargeFair == SpecLarge /\ Fairness

\* ======================================================== properties
\* the names of a list, lowercased, in order
NamesOf(servers) == [i \in 1..Len(servers) |-> toLowerCase(servers[i].name)]

\* the entries of R whose name equals, letter case ignored, no name of L
Survivors(R, L) ==
  LET unseen(x) == \A i \in 1..Len(L) : toLowerCase(L[i].name) # toLowerCase(x.name)
  IN  SelectSeq(R, unseen)

\* the fetchServers run numbered g is over
RunOver(g) == g <= started /\ \A t \in loads : t.gen # g

\* C1: in every reachable state no two entries of the merged list
\* cliServers ++ registryServers have names that are equal when letter case is
\* ignored, whatever the order in which the loads, page requests and refreshes
\* complete.
C1_MergedListHasUniqueNames ==
  \A i, j \in 1..Len(allServers) :
     i # j => toLowerCase(allServers[i].name) # toLowerCase(allServers[j].name)

\* C2: when a fetchServers run that had no other load beside it completes, with
\* L the Local listing it got and R, c the Registry page and cursor it got, the
\* merged list is L followed by the entries of R that collide with no name of
\* L, in the order of R, and hasMoreRegistry tells whether c is present.
C2_CleanLoadAllResult ==
  [][ (lastDone' # lastDone /\ lastDone'.clean) =>
        /\ allServers' = lastDone'.L \o Survivors(lastDone'.R, lastDone'.L)
        /\ hasMoreRegistry' = (lastDone'.c # NoCursor)
        /\ registryCursor' = lastDone'.c ]_vars

\* a clean run has just merged Local [Foo, Bar] with a Registry page holding
\* foo: foo is dropped, the rest follows the Local entries, a cursor came back
C2_Witness ==
  /\ lastDone.clean
  /\ lastDone.L = SmallListing
  /\ \E i \in 1..Len(lastDone.R) : lastDone.R[i].name = <<"f", "o", "o">>
  /\ lastDone.c # NoCursor
  /\ Len(registryServers) = Len(lastDone.R) - 1
  /\ allServers = lastDone.L \o registryServers
  /\ hasMoreRegistry

\* C3: at most one loadMoreRegistryServers request is in flight at any time; a
\* loadMoreRegistryServers triggered while one is in flight sends nothing.
C3_AtMostOneLoadMoreInFlight == Len(mores) <= 1

\* a page request is in flight while everything else the prefetch effect and
\* the guard ask for holds: the effect runs and only isLoadingMore stops it
C3_Witness ==
  /\ Len(mores) = 1
  /\ isLoadingMore
  /\ hasMoreRegistry
  /\ registryCursor # NoCursor
  /\ Len(sortedServers) - endIndex < itemsPerPage * 2

\* C4: a loadMoreRegistryServers request that is in flight when handleRefresh is
\* invoked is discarded: when it completes after the fetchServers run of the
\* refresh has completed, the Registry list, the cursor and hasMoreRegistry
\* stay what they were.
C4_StaleLoadMoreDiscarded ==
  [][ \A i \in 1..Len(mores) :
        ( /\ mores[i].refresh > 0
          /\ RunOver(mores[i].refresh)
          /\ Len(mores') < Len(mores) )
        => UNCHANGED << registryServers, registryCursor, hasMoreRegistry >> ]_vars

\* C5: when fetchServers runs overlap, the state that remains when all of them
\* are over is the one of the run started last: the result of a run started
\* earlier is not applied over it.
C5_LatestStartedLoadAllWins ==
  (started > 0 /\ loads = {}) => lastDone.gen = started

\* C6: once hasMoreRegistry is false it stays false, and no Registry page
\* request is sent, until a new fetchServers run starts.
C6_ExhaustionIsFinal ==
  [][ (~hasMoreRegistry /\ started' = started) =>
        (~hasMoreRegistry' /\ Len(mores') <= Len(mores)) ]_vars

\* C7 as stated: two calls of McpRegistryService.fetchServers with the same
\* {limit, cursor, search} and skipCache false, made within CACHE_TTL_MS, send
\* exactly one request between them.
C7_OneRequestPerWindow == \A k \in AdapterKeys : regHist.nets[k] <= 1

\* C7, amended: a call of McpRegistryService.fetchServers with skipCache false,
\* made less than CACHE_TTL_MS after a response for the same {limit, cursor,
\* search} arrived successfully, with no clearCache() in between, sends no
\* request and returns the data of that response.
C7_SecondCallServedFromCache ==
  [][ LET k == regHist'.last.key
      IN  ( /\ regHist'.count = regHist.count + 1
            /\ ~regHist'.last.skipCache
            /\ regHist.okAt[k] # NoTime
            /\ now - regHist.okAt[k] < CACHE_TTL_MS )
          => ( /\ regCalls' = regCalls
               /\ ~regHist'.last.network
               /\ regHist'.last.data = regHist.okData[k] ) ]_vars

\* the last call came after a successful response for its arguments, sent
\* nothing and returned that response's page
C7_Witness ==
  /\ regHist.count >= 2
  /\ ~regHist.last.skipCache
  /\ ~regHist.last.network
  /\ regHist.okAt[regHist.last.key] # NoTime
  /\ regHist.last.data = regHist.okData[regHist.last.key]
  /\ Len(regHist.last.data.servers) > 0
  /\ regCalls = <<>>

\* the registry cache holds, for these arguments, an entry of age >= CACHE_TTL_MS
RegistryEntryExpired(cursor, search) ==
  LET k == << RegistryLimit, cursor, search >>
  IN  k \in DOMAIN cache /\ now - cache[k].timestamp >= CACHE_TTL_MS

\* the Local slot holds a listing of age >= CLI_CACHE_TTL_MS
CliSlotExpired ==
  cliCache.timestamp # NoTime /\ now - cliCache.timestamp >= CLI_CACHE_TTL_MS

\* the fetchServers run numbered g waits, in state S of the runs, for getServers
WaitsForCli(S, g) == \E t \in S : t.gen = g /\ t.cliPending
\* ... for the registry's answer
WaitsForRegistry(S, g) == \E t \in S : t.gen = g /\ t.regPending

\* C8: a cached value is served only while now - timestamp is below the 60
\* minutes: a fetch that may use the cache and finds the Local slot, or the
\* Registry entry of its arguments, of age >= TTL asks the source again and
\* does not return the cached data. For fetchServers that is: with the tool
\* installed and the slot expired the run waits for getServers; with the page-1
\* entry expired the run waits for getServers or for the registry; and a run
\* that leaves getServers with the page-1 entry expired waits for the registry.
\* For loadMoreRegistryServers: with the entry of (cursor, search) expired a
\* request goes out.
C8_ExpiredEntryNeverServed ==
  [][ /\ (started' = started + 1 /\ isInstalled /\ CliSlotExpired)
           => WaitsForCli(loads', started')
      /\ ( /\ started' = started + 1
           /\ RegistryEntryExpired(NoCursor, searchQuery) )
           => (WaitsForCli(loads', started') \/ WaitsForRegistry(loads', started'))
      /\ \A t \in loads :
           ( /\ t.cliPending
             /\ ~WaitsForCli(loads', t.gen)
             /\ RegistryEntryExpired(NoCursor, t.search) )
           => WaitsForRegistry(loads', t.gen)
      /\ ( /\ ~EffectsFlushed
           /\ RegistryEntryExpired(registryCursor, searchQuery) )
           => Len(mores') = Len(mores) + 1 ]_vars

\* a run that may use the cache waits for the registry although the cache
\* holds, since before the run started, an entry for its page: the entry was of
\* age >= CACHE_TTL_MS at the call
C8_Witness ==
  \E t \in loads :
     /\ t.regPending
     /\ ~t.skipCache
     /\ << RegistryLimit, NoCursor, t.search >> \in DOMAIN cache
     /\ t.at - cache[<< RegistryLimit, NoCursor, t.search >>].timestamp
          >= CACHE_TTL_MS

\* C9: after handleRefresh neither cache holds data fetched by a request that
\* was sent before the refresh.
C9_NoPreRefreshDataInCaches ==
  /\ ~cliCache.stale
  /\ \A k \in DOMAIN cache : ~cache[k].stale

\* C10: within one fetchServers run the registry is asked for page 1 only when
\* getServers has returned or failed, and the page is deduplicated against the
\* names of the listing that same run got from getServers.
C10_LocalBeforeRegistry ==
  [][ /\ \A t \in loads' : t.regPending => ~t.cliPending
      /\ (lastDone' # lastDone)
           => registryServers' = Survivors(lastDone'.R, lastDone'.L) ]_vars

\* a run has completed whose own listing was [Foo, Bar] while cliServers had
\* been emptied by another run: foo was dropped from its page all the same
C10_Witness ==
  /\ lastDone.L = SmallListing
  /\ cliServers = <<>>
  /\ Len(lastDone.R) = 2
  /\ NamesOf(registryServers) = << <<"b", "a", "z">> >>
  /\ loads = {}

\* C11: every fetchServers run completes, whether getServers and the registry
\* request succeed or fail, and the step that completes it leaves isLoading and
\* isRefreshing false; a loading state does not last forever.
C11_LoadAllTerminates ==
  /\ \A g \in 1..MaxLoadAll : (\E t \in loads : t.gen = g) ~> RunOver(g)
  /\ (isLoading \/ isRefreshing) ~> (~isLoading /\ ~isRefreshing)
  /\ [][ /\ \A t \in loads : RunOver(t.gen)' => (~isLoading' /\ ~isRefreshing')
         /\ (started' = started + 1 /\ \A t \in loads' : t.gen # started')
              => (~isLoading' /\ ~isRefreshing') ]_vars

\* with the tool installed, a refresh whose getServers call and registry
\* request both failed is over and nothing is loading
C11_Witness ==
  /\ isInstalled
  /\ lastDone.gen = 2
  /\ lastDone.L = <<>>
  /\ lastDone.R = <<>>
  /\ cliCache = NoCliCache
  /\ cache = EmptyCache
  /\ loads = {}
  /\ ~isLoading
  /\ ~isRefreshing

\* ---------------------------------------------------------------- C12
\* what is left behind the page on show
Remaining == Len(filteredServers) - currentPage * itemsPerPage

\* the three conditions of the prefetch trigger
TriggerHolds == Remaining < 2 * itemsPerPage /\ hasMoreRegistry /\ ~isLoadingMore

\* a step in which loadMoreRegistryServers got past its guard: a page request
\* joins the waiting ones, or the page came from the cache and was applied
LoadMoreStarted ==
  \/ Len(mores') > Len(mores)
  \/ /\ mores' = mores
     /\ started' = started
     /\ loads' = MarkBusy(loads)
     /\ registryCursor' # registryCursor

\* C12: the prefetch trigger starts the incremental load exactly when fewer
\* than two pages are left behind the current page, the registry has more and
\* no incremental load is in flight: a load starts only from such a state, and
\* from such a state (a cursor being held) the load is what happens next; on
\* page 1 a list of 20 triggers, a list of 40 does not
C12_PrefetchTriggerExact ==
  [][ /\ LoadMoreStarted => TriggerHolds
      /\ (TriggerHolds /\ registryCursor # NoCursor) => LoadMoreStarted
      /\ (currentPage = 1 /\ hasMoreRegistry /\ ~isLoadingMore
            /\ registryCursor # NoCursor /\ ~LoadMoreStarted)
           => Len(sortedServers) # 20
      /\ (currentPage = 1 /\ LoadMoreStarted) => Len(sortedServers) # 40 ]_vars

\* the list of 20 on page 1 has triggered: its page request is waiting
C12_Witness ==
  /\ currentPage = 1
  /\ Len(sortedServers) = 20
  /\ hasMoreRegistry
  /\ isLoadingMore
  /\ Len(mores) = 1

C14_FailureGivesEmptyResult ==
  [][ Len(regCalls') < Len(regCalls)
        => /\ DOMAIN regHist'.answer.data = { "servers", "nextCursor", "totalCount" }
           /\ regHist'.answer.failed
                => regHist'.answer.data =
                     [servers |-> <<>>, nextCursor |-> NoCursor, totalCount |-> 0] ]_vars

\* a request has failed after another one had brought servers
C14_Witness ==
  /\ regHist.answer.failed
  /\ regHist.answer.data.servers = <<>>
  /\ \E k \in AdapterKeys : regHist.okAt[k] # NoTime /\ Len(regHist.okData[k].servers) > 0

\* ---------------------------------------------------------------- C15
\* run g goes on to the registry with an empty local list: it waits for page 1,
\* or page 1 came from the cache and was applied whole
RegistryOnly(g) ==
  \/ \E t \in loads' : t.gen = g /\ t.regPending /\ t.cliResults = <<>>
  \/ /\ \A t \in loads' : t.gen # g
     /\ lastDone'.gen = g
     /\ lastDone'.L = <<>>
     /\ registryServers' = lastDone'.R
     /\ registryCursor' = lastDone'.c

\* C15: when the tool is not installed or the listing fails, fetchServers
\* raises nothing, sets cliServers to the empty list, leaves the Local cache
\* slot as it is (a refresh has emptied it before the run), still asks the
\* registry for page 1 and applies what comes back, all of it, clearing the
\* loading flags
C15_RegistryOnlyOperation ==
  [][ \A g \in 1..MaxLoadAll :
        /\ (started = g - 1 /\ started' = g /\ ~isInstalled)
             => /\ cliServers' = <<>>
                /\ cliCache' = IF \E t \in loads' : t.gen = g /\ t.skipCache
                               THEN NoCliCache ELSE cliCache
                /\ RegistryOnly(g)
        /\ (WaitsForCli(loads, g) /\ ~WaitsForCli(loads', g))
             => \/ /\ cliServers' = CliListing
                   /\ cliCache'.servers = CliListing
                \/ /\ cliServers' = <<>>
                   /\ cliCache' = cliCache
                   /\ RegistryOnly(g)
        /\ ( /\ \E t \in loads : t.gen = g /\ t.regPending /\ t.cliResults = <<>>
             /\ \A t \in loads' : t.gen # g )
             => /\ lastDone'.gen = g
                /\ lastDone'.L = <<>>
                /\ registryServers' = lastDone'.R
                /\ registryCursor' = lastDone'.c
                /\ ~isLoading' /\ ~isRefreshing' ]_vars

\* the listing of the second run failed: the list shows the registry only and
\* the slot still holds the listing of the first run
C15_Witness ==
  /\ isInstalled
  /\ lastDone.gen = 2
  /\ lastDone.L = <<>>
  /\ cliServers = <<>>
  /\ Len(registryServers) > 0
  /\ cliCache # NoCliCache
  /\ Len(cliCache.servers) > 0

\* ---------------------------------------------------------------- C16
\* a fetchServers run starts that may use the caches (not the one of a refresh)
StartsCached == started' = started + 1 /\ \A t \in loads' : ~(t.gen = started' /\ t.skipCache)

\* the Local slot exists and is younger than 60 minutes
SlotFresh == cliCache # NoCliCache /\ now - cliCache.timestamp < 60 * 60 * 1000

\* the run that starts takes the slot's data, calls no listing, leaves the slot
ServedFromSlot ==
  /\ cliServers' = cliCache.servers
  /\ ~WaitsForCli(loads', started')
  /\ cliCache' = cliCache

\* C16 as stated: a Local fetch with skipCache = false and a slot younger than
\* 60 minutes returns the slot's data without a listing call and leaves the slot
C16_FreshSlotServed ==
  [][ (StartsCached /\ SlotFresh) => ServedFromSlot ]_vars

\* C16, with the tool known to be installed: a Local fetch with skipCache =
\* false and a slot younger than 60 minutes returns the slot's data without a
\* listing call and leaves the slot; the slot changes only when a listing has
\* succeeded, or when a refresh empties it
C16_FreshSlotServedWhenInstalled ==
  [][ /\ (StartsCached /\ SlotFresh /\ isInstalled) => ServedFromSlot
      /\ cliCache' # cliCache
           => \/ /\ cliCache' = NoCliCache
                 /\ started' = started + 1
                 /\ \E t \in loads' : t.gen = started' /\ t.skipCache
              \/ \E g \in 1..MaxLoadAll :
                   /\ WaitsForCli(loads, g) /\ ~WaitsForCli(loads', g)
                   /\ cliCache'.servers = CliListing
                   /\ cliServers' = CliListing ]_vars

\* the slot of the earlier view has been served to a run of this one
C16_Witness ==
  /\ isInstalled
  /\ cliCache = EarlierSlot
  /\ lastDone.gen >= 1
  /\ lastDone.L = EarlierSlot.servers
  /\ cliServers = EarlierSlot.servers

\* ---------------------------------------------------------------- C17
\* the cache holds an entry of these arguments that may be served now
ValidEntry(k) ==
  LET key == getCacheKey(k[1], k[2], k[3])
  IN  key \in DOMAIN cache /\ now - cache[key].timestamp < CACHE_TTL_MS

\* C17: an entry of the registry cache is created or overwritten only by a
\* request that succeeded, with what it returned; a request that fails leaves
\* the whole map as it is, and a call with skipCache = false that finds no
\* valid entry of its arguments (after a failure as at any other time) sends a
\* request
C17_OnlySuccessIsCached ==
  [][ /\ (cache' # cache /\ cache' # EmptyCache)
           => /\ Len(regCalls') < Len(regCalls)
              /\ ~regHist'.answer.failed
              /\ LET k == regHist'.answer.key
                 IN  cache' = CacheSet(cache, getCacheKey(k[1], k[2], k[3]),
                                       [ data |-> regHist'.answer.data,
                                         timestamp |-> now, stale |-> FALSE ])
      /\ (Len(regCalls') < Len(regCalls) /\ regHist'.answer.failed)
           => cache' = cache
      /\ ( /\ regHist'.count = regHist.count + 1
           /\ ~regHist'.last.skipCache
           /\ ~ValidEntry(regHist'.last.key) )
           => /\ regHist'.last.network
              /\ Len(regCalls') = Len(regCalls) + 1 ]_vars

\* a request failed while the cache held other entries, and the same call,
\* made again, has sent a request
C17_Witness ==
  /\ regHist.answer.failed
  /\ cache # EmptyCache
  /\ regHist.count > regHist.answer.calls
  /\ regHist.last.key = regHist.answer.key
  /\ ~regHist.last.skipCache
  /\ regHist.last.network

\* ---------------------------------------------------------------- C18
\* C18: in every state hasMoreRegistry is true exactly when a registry cursor
\* is held
C18_HasMoreIffCursor == hasMoreRegistry <=> (registryCursor # NoCursor)

\* once a fetchServers run has completed, hasMoreRegistry is true exactly
\* when a cursor is held: the two are always set together
C18_HasMoreIffCursorAfterLoad ==
  lastDone.gen >= 1 => (hasMoreRegistry <=> (registryCursor # NoCursor))

\* ---------------------------------------------------------------- C19
\* C19: a step that changes the search text or the sort key leaves
\* currentPage at 1, whatever page was shown before
C19_FilterChangeResetsPage ==
  [][ (searchQuery' # searchQuery \/ sortBy' # sortBy) => currentPage' = 1 ]_vars

\* the user was on another page than the first, changed the search text or
\* the sort key, and is on page 1
C19_Witness ==
  /\ lastEvent.kind = "filter"
  /\ lastEvent.page > 1
  /\ currentPage = 1

\* ---------------------------------------------------------------- C20
\* the step of handlePageChange changes the page and nothing of the data
PageChangeStepFrame ==
  [][ lastEvent'.kind = "page"
        => /\ currentPage' # currentPage
           /\ UNCHANGED << cliServers, registryServers, registryCursor,
                           hasMoreRegistry, cliCache, cache, loads, started,
                           mores >> ]_vars

\* C20: handlePageChange is a pure index update: its step leaves cliServers,
\* registryServers, the cursor and both caches as they are, and what follows
\* from it is at most the incremental load of the prefetch effect, never the
\* start of a fetchServers run
C20_PageChangeStartsNoLoadAll ==
  [][ /\ lastEvent'.kind = "page"
           => UNCHANGED << cliServers, registryServers, registryCursor,
                           cliCache, cache, loads, started, mores >>
      /\ lastEvent.kind = "page" => started' = started ]_vars

\* ---------------------------------------------------------------- C21
\* q occurs in s as a run of characters, letter case set aside
ContainsFold(s, q) ==
  \E k \in 0..(Len(s) - Len(q)) :
    \A j \in 1..Len(q) : LowerChar(s[k + j]) = LowerChar(q[j])

\* q without the blanks at its ends
Stripped(q) ==
  LET solid == { i \in 1..Len(q) : q[i] # " " }
  IN  IF solid = {} THEN <<>>
      ELSE SubSeq(q, CHOOSE i \in solid : \A j \in solid : i <= j,
                     CHOOSE i \in solid : \A j \in solid : j <= i)

\* result is servers cut down to the entries at the positions in keep, in order
IsSelection(result, servers, keep) ==
  /\ Len(result) = Cardinality(keep)
  /\ \A i \in keep : result[Cardinality({ j \in keep : j <= i })] = servers[i]

\* the call of filterServers returned the entries that hold q, and servers
\* itself for the empty text
FilteredBy(q) ==
  IF pure.query = <<>> THEN pure.result = pure.servers
  ELSE IsSelection(pure.result, pure.servers,
                   { i \in 1..Len(pure.servers) :
                       \/ ContainsFold(pure.servers[i].name, q)
                       \/ ContainsFold(pure.servers[i].by, q) })

\* C21 as stated: filterServers returns servers for the empty query, else
\* exactly the entries whose name or by holds the query, letter case set
\* aside, in their order
C21_FilterBySubstring ==
  pure.fn = "filterServers" => FilteredBy(pure.query)

\* C21, the query taken without the blanks at its ends: filterServers returns
\* servers for the empty query, else exactly the entries whose name or by
\* holds the trimmed query, letter case set aside, in their order
C21_FilterByTrimmedSubstring ==
  pure.fn = "filterServers" => FilteredBy(Stripped(pure.query))

\* a query with a blank at its end has kept some entries and dropped others
C21_Witness ==
  /\ pure.fn = "filterServers"
  /\ pure.query = <<"e", " ">>
  /\ Len(pure.servers) = 3
  /\ Len(pure.result) \in 1..2

\* ---------------------------------------------------------------- C22
\* how often x occurs in s
Occurrences(s, x) == Cardinality({ i \in 1..Len(s) : s[i] = x })

\* C22: sortServers returns a permutation of its input: the input order when
\* preserveConfigOrder is set or the key is neither "name" nor "stars",
\* ascending by name for "name", descending by stargazer_count for "stars";
\* [Zed(50), Ann(5)] gives [Zed, Ann] by stars and [Ann, Zed] by name; the
\* array handed in is as it was
C22_SortIsOrderedPermutation ==
  pure.fn = "sortServers" =>
    LET r == pure.result
        asIs == pure.preserveConfigOrder \/ pure.key \notin { "name", "stars" }
        Zed == PureEntries[1]
        Ann == PureEntries[2]
    IN  /\ Len(r) = Len(pure.servers)
        /\ \A i \in 1..Len(r) : Occurrences(r, r[i]) = Occurrences(pure.servers, r[i])
        /\ pure.after = pure.servers
        /\ asIs => r = pure.servers
        /\ (~asIs /\ pure.key = "name")
             => \A i, j \in 1..Len(r) :
                  i < j => localeCompare(r[i].name, r[j].name) <= 0
        /\ (~asIs /\ pure.key = "stars")
             => \A i, j \in 1..Len(r) :
                  i < j => r[i].stargazer_count >= r[j].stargazer_count
        /\ (~asIs /\ pure.servers = << Zed, Ann >>)
             => r = IF pure.key = "stars" THEN << Zed, Ann >> ELSE << Ann, Zed >>

\* [Zed(50), Ann(5)] has been sorted by name
C22_Witness ==
  /\ pure.fn = "sortServers"
  /\ ~pure.preserveConfigOrder
  /\ pure.key = "name"
  /\ pure.servers = << PureEntries[1], PureEntries[2] >>
  /\ pure.result = << PureEntries[2], PureEntries[1] >>

\* ---------------------------------------------------------------- C23
\* pages 1..k of a list, one after the other
RECURSIVE PagesUpTo(_, _)
PagesUpTo(list, k) ==
  IF k = 0 THEN <<>> ELSE PagesUpTo(list, k - 1) \o pageOf(list, k)

\* the positions of the list that page n shows
PagePositions(list, n) ==
  { i \in 1..Len(list) : (n - 1) * 12 < i /\ i <= n * 12 }

\* C23: with 12 entries to the page, totalPages is ceil(length / 12) and page
\* n is the slice [(n-1)*12, n*12) of the list: pages 1..totalPages are each
\* non-empty, pairwise disjoint and give the whole list one after the other,
\* and a page beyond totalPages is empty
C23_PagesPartitionTheList ==
  pure.fn = "paginate" =>
    LET list == pure.servers
        n == pure.page
        T == totalPagesOf(list)
        at == PagePositions(list, n)
    IN  /\ itemsPerPage = 12
        /\ T * 12 >= Len(list) /\ (T = 0 \/ (T - 1) * 12 < Len(list))
        /\ Len(pure.result) = Cardinality(at)
        /\ \A i \in 1..Len(pure.result) : pure.result[i] = list[(n - 1) * 12 + i]
        /\ n <= T => pure.result # <<>>
        /\ n > T => pure.result = <<>>
        /\ \A k \in 1..T : pageOf(list, k) # <<>>
        /\ \A k, m \in 1..T :
             k # m => PagePositions(list, k) \cap PagePositions(list, m) = {}
        /\ PagesUpTo(list, T) = list

\* a page beyond the last of a list of more than two pages has been asked for
C23_Witness ==
  /\ pure.fn = "paginate"
  /\ Len(pure.servers) = 25
  /\ pure.page = 4
  /\ pure.result = <<>>

\* the last, partly filled page of a list has been shown
C23_WitnessLastPage ==
  /\ pure.fn = "paginate"
  /\ Len(pure.servers) = 25
  /\ pure.page = 3
  /\ Len(pure.result) = 1

\* ---------------------------------------------------------------- C24
\* C24: isLoadingMore is true exactly while a page request of
\* loadMoreRegistryServers is in flight, and every call that sets it clears it
\* in the end, whether the request succeeds or fails
C24_LoadingMoreWhileInFlight ==
  /\ [](isLoadingMore <=> mores # <<>>)
  /\ (isLoadingMore ~> ~isLoadingMore)

\* a page request is in flight and the flag is up
C24_Witness ==
  /\ isLoadingMore
  /\ Len(mores) = 1
  /\ mores[1].cursor # NoCursor

\* ---------------------------------------------------------------- C25
\* a step in which loadMoreRegistryServers applies its page: the response of a
\* waiting request, or a page taken from the registry cache
LoadMoreCompleted ==
  \/ Len(mores') < Len(mores)
  \/ /\ mores' = mores
     /\ started' = started
     /\ loads' = MarkBusy(loads)
     /\ registryCursor' # registryCursor

\* C25: an incremental load only appends: when loadMoreRegistryServers
\* completes, cliServers is unchanged and the registryServers of before is a
\* prefix of the new one, so the merged list keeps the local entries first and
\* the registry entries in the order they were fetched
C25_LoadMoreOnlyAppends ==
  [][ LoadMoreCompleted
        => /\ cliServers' = cliServers
           /\ Len(registryServers') >= Len(registryServers)
           /\ SubSeq(registryServers', 1, Len(registryServers)) = registryServers
           /\ SubSeq(allServers', 1, Len(allServers)) = allServers
           /\ allServers' = cliServers \o registryServers' ]_vars

\* a second page has been appended behind the first one
C25_Witness ==
  /\ mores = <<>>
  /\ ~isLoadingMore
  /\ Len(registryServers) > PageLen

\* ---------------------------------------------------------------- C26
\* the cursors the registry hands out in answers to requests with a search text
CursorsUnder(search) ==
  { RegistryResponse(RegistryLimit, c, search).metadata.nextCursor :
      c \in 0..Len(Catalog) } \ { NoCursor }

\* C26: every page request of loadMoreRegistryServers sends a cursor that a
\* registry response to the same search text has returned: registryCursor never
\* goes out with another search text, also when the text changes while a
\* fetchServers run or a page request is in flight
C26_CursorSentWithItsSearch ==
  \A i \in 1..Len(mores) : mores[i].cursor \in CursorsUnder(mores[i].search)

\* ---------------------------------------------------------------- C27
\* the request of a waiting loadMoreRegistryServers run fails
MoreFails == \E i \in 1..Len(mores) : MoreReturn(i, FALSE)

C28_LoadAllOnlyOnTrigger ==
  [][ (lastEvent.kind = "loaded" /\ lastDone.gen = started /\ loads = {})
        => (started' = started + 1
              => \E t \in loads' : t.gen = started' /\ t.skipCache) ]_vars

\* ---------------------------------------------------------------- C29
\* C29: whenever the filtered and sorted list is not empty, currentPage is one
\* of the pages 1..totalPages, so the page on show is not empty: a load that
\* replaces or shortens the list never leaves currentPage beyond totalPages
C29_CurrentPageWithinPages ==
  Len(sortedServers) > 0
    => /\ 1 <= currentPage /\ currentPage <= totalPages
       /\ paginatedServers # <<>>

\* ---------------------------------------------------------------- C30
\* the call numbered i returns success in this step: its two writes succeeded
ReturnsSuccess(i) == ops[i].pc # "done" /\ ops'[i].pc = "done" /\ ops'[i].success

\* C30: disableMcp and enableMcp move an entry between the main config and the
\* disabled file and never lose one: whatever calls are made, one at a time or
\* interleaved at their awaits, with or without failing writes, every entry is
\* in at least one of the two files, and when a call whose two writes
\* succeeded returns, the entry it moved is in exactly one. File reads are
\* taken to succeed
C30_NoEntryLost ==
  /\ [](~readFault => Names \subseteq (mainFile \cup disabledFile))
  /\ [][ \A i \in 1..MaxFileCalls :
           (~readFault' /\ ReturnsSuccess(i))
             => (ops[i].name \in mainFile') # (ops[i].name \in disabledFile') ]_vars
====
